---- MODULE Spec2Model ----
(***************************************************************************)
(* A model of backtester/backtester.py: the Backtest runner.               *)
(*                                                                         *)
(* Money is modelled in exact integer arithmetic (the program uses         *)
(* floats); prices, capital and the contract multiplier are small          *)
(* integers.  A pandas cell that may be missing (NaN) is a sequence of     *)
(* length at most one: <<>> is NaN, <<v>> is the value v.                  *)
(*                                                                         *)
(* Dates are calendar days 1..MaxDay.  A "business month start" (the BMS   *)
(* frequency of pd.date_range) is a day divisible by MonthLen.             *)
(***************************************************************************)
EXTENDS Integers, Sequences, FiniteSets, TLC

VARIABLES
    allocation,         \* self.allocation, as integer weights (normalised on use)
    strategy,           \* self._options_strategy.legs
    dates,              \* the unique dates of the stock and option data
    stocks_data,        \* date -> stock slice (sequence of rows), for dates streamed so far
    options_data,       \* date -> option slice (sequence of rows), for dates streamed so far
    rebalance_freq,     \* run's rebalance_freq argument
    pc,                 \* position of run
    date,               \* the loop variable of run (0 before the first date)
    previous_rb_date,   \* run's local previous_rb_date
    total_capital,      \* _rebalance_portfolio's local total_capital
    current_cash,       \* self.current_cash
    stocks_inventory,   \* self._stocks_inventory
    options_inventory,  \* self._options_inventory
    trade_log,          \* self.trade_log
    balance,            \* self.balance
    in_effect,          \* history: date -> holdings and cash once the date is processed
    unmet,              \* the preconditions of run that the configuration does not meet
    sma_days,           \* run's sma_days argument (0 for None)
    rebalances,         \* history: the date and resulting holdings of every rebalance
    direct_calls        \* number of direct calls of _rebalance_portfolio after run

vars == <<allocation, strategy, dates, stocks_data, options_data, rebalance_freq, pc,
          date, previous_rb_date, total_capital, current_cash,
          stocks_inventory, options_inventory, trade_log, balance, in_effect,
          unmet, sma_days, rebalances, direct_calls>>

(***************************************************************************)
(* Bounds of the model.                                                    *)
(***************************************************************************)
MaxDay == 4
MaxDates == 3
MonthLen == 2
MaxFreq == 1
InitialCapital == 100
SharesPerContract == 2
MaxSma == 2
MaxCalls == 2

Days == 1..MaxDay

NaN == <<>>
IsNaN(x) == x = <<>>
Val(x) == x[1]

\* Python's floor division on exact numbers: floor(a / b), b # 0.
FloorDiv(a, b) == IF b > 0 THEN a \div b ELSE (0 - a) \div (0 - b)
Abs(x) == IF x < 0 THEN 0 - x ELSE x

RECURSIVE SumSeq(_)
SumSeq(s) == IF s = <<>> THEN 0 ELSE Head(s) + SumSeq(Tail(s))

\* The elements of a set of integers, in increasing order.
RECURSIVE SortedSeq(_)
SortedSeq(S) ==
    IF S = {} THEN <<>>
    ELSE LET m == CHOOSE x \in S : \A y \in S : x <= y
         IN  <<m>> \o SortedSeq(S \ {m})

\* Boolean-mask selection, frame[mask]: the rows whose mask entry is TRUE,
\* in order.
Select(s, mask) ==
    LET F[i \in 0..Len(s)] ==
            IF i = 0 THEN <<>>
            ELSE IF mask[i] THEN Append(F[i - 1], s[i]) ELSE F[i - 1]
    IN  F[Len(s)]

(***************************************************************************)
(* External collaborators (enums, strategy, data handlers): their code is  *)
(* not part of backtester.py; they are modelled from their interface.      *)
(***************************************************************************)
\* Direction.value: the quote column a leg trades at when it is entered.
DirectionValue(d) == IF d = "BUY" THEN "ask" ELSE "bid"
\* ~direction
Invert(d) == IF d = "BUY" THEN "SELL" ELSE "BUY"
\* get_order(direction, signal): the four order tags.
get_order(d, signal) ==
    IF signal = "ENTRY"
    THEN (IF d = "BUY" THEN "BTO" ELSE "STO")
    ELSE (IF d = "BUY" THEN "STC" ELSE "BTC")

\* A strategy leg; its entry filter accepts the rows of the contracts in `accepts`.
Leg(n, d, a) == [name |-> n, direction |-> d, accepts |-> a]
EntryFilter(leg, row) == row.contract \in leg.accepts

\* A leg's exit filter over a frame of current quotes: here the strategy
\* closes a leg once its contract is quoted as a put.
ExitFilter(leg, quote) == quote.type = <<"put">>
\* Strategy.filter_thresholds(entry_cost, current_cost) with the profit and
\* loss thresholds left unset: no combination is selected.
filter_thresholds(entry_cost, current_cost) == FALSE

Strategies ==
    { <<Leg("leg_1", "BUY", {"K1", "K2"})>>,
      <<Leg("leg_1", "SELL", {"K1", "K2"})>>,
      <<Leg("leg_1", "BUY", {"K1"}), Leg("leg_2", "SELL", {"K2"})>> }

\* The option slices a date may bring: K1 is a call, K2 a put.  Every slice
\* holds at least one row (the option dates equal the stock dates), and no
\* BUY-side ask equals a SELL-side bid, so no combination costs exactly zero.
K1Low  == [contract |-> "K1", type |-> "call", bid |-> 1, ask |-> 2]
K1High == [contract |-> "K1", type |-> "call", bid |-> 4, ask |-> 6]
K2Put  == [contract |-> "K2", type |-> "put", bid |-> 3, ask |-> 4]
OptionSlices == { <<K1Low>>, <<K2Put>>, <<K1High, K2Put>> }

\* self._stocks: the configured stocks, percentage = pnum / pden (they sum to 1).
Stocks == << [symbol |-> "SPY", pnum |-> 1, pden |-> 1] >>
StockSlices == { <<[symbol |-> "SPY", adjClose |-> p]>> : p \in {2, 3} }

\* The allocation weights given to the constructor.
Allocations == { [stocks |-> 1, options |-> 1, cash |-> 0],
                 [stocks |-> 1, options |-> 0, cash |-> 1] }
TotalAllocation(a) == a.stocks + a.options + a.cash

\* TiingoData.start_date / end_date
StartDate == CHOOSE d \in dates : \A e \in dates : d <= e
EndDate == CHOOSE d \in dates : \A e \in dates : e <= d

(***************************************************************************)
(* run: the rebalancing days.                                              *)
(***************************************************************************)
\* pd.date_range(start, end, freq='<n>BMS'): every n-th business month start
\* from the first one on or after start, up to end.
FirstBMS(start) == ((start + MonthLen - 1) \div MonthLen) * MonthLen
DateRange(start, end, freq) ==
    SortedSeq({ b \in start..end :
                  /\ b % MonthLen = 0
                  /\ ((b - FirstBMS(start)) \div MonthLen) % freq = 0 })
\* A variant of rebalancing_days that rebalances every month when
\* rebalance_freq is 0.
rebalancing_days_monthly ==
    <<StartDate>> \o
        DateRange(StartDate, EndDate, IF rebalance_freq # 0 THEN rebalance_freq ELSE 1)

rebalancing_days ==
    <<StartDate>> \o
        (IF rebalance_freq # 0 THEN DateRange(StartDate, EndDate, rebalance_freq) ELSE <<>>)

\* A variant of IsRebalancingDay that takes every month start for a
\* rebalancing day, whatever the frequency.
IsRebalancingDayMonthStart(d) == d = StartDate \/ d % MonthLen = 0

\* `date in rebalancing_days`
IsRebalancingDay(d) ==
    LET days == rebalancing_days IN \E i \in DOMAIN days : days[i] = d
\* rebalancing_days.get_loc(date) is an integer only when date occurs once.
Occurrences(d) ==
    LET days == rebalancing_days IN Cardinality({i \in DOMAIN days : days[i] = d})
GetLoc(d) ==
    LET days == rebalancing_days IN CHOOSE i \in DOMAIN days : days[i] = d
PreviousRbDate(d) ==
    LET loc == GetLoc(d) IN IF loc # 1 THEN rebalancing_days[loc - 1] ELSE d

(***************************************************************************)
(* Initial state: a constructed Backtest with stocks, strategy and data    *)
(* set, before run.  The run state does not exist yet; its variables hold  *)
(* empty placeholders.                                                     *)
(***************************************************************************)
EmptyMap == [x \in {} |-> 0]

\* The conditions run asserts, lines 84-94, in the order it asserts them.
Preconditions ==
    { "stocks_data",        \* self._stocks_data is set
      "stock_symbols",      \* every configured symbol occurs in the stock data
      "options_data",       \* self._options_data is set
      "options_strategy",   \* self._options_strategy is set
      "schema",             \* the options schema equals the strategy's schema
      "dates" }             \* the stock dates equal the option dates

Init ==
    /\ allocation \in Allocations
    /\ strategy \in Strategies
    /\ dates \in {S \in SUBSET Days : S # {} /\ Cardinality(S) <= MaxDates}
    /\ stocks_data = EmptyMap
    /\ options_data = EmptyMap
    /\ rebalance_freq = 0
    /\ pc = "idle"
    /\ date = 0
    /\ previous_rb_date = 0
    /\ total_capital = 0
    /\ current_cash = 0
    /\ stocks_inventory = <<>>
    /\ options_inventory = <<>>
    /\ trade_log = <<>>
    /\ balance = <<>>
    /\ in_effect = EmptyMap
    /\ unmet \in SUBSET Preconditions
    /\ sma_days = 0
    /\ rebalances = <<>>
    /\ direct_calls = 0

\* A row of self.balance; every column but the date may be NaN.
BalanceRow(d, cash, perStock, calls, puts, sqty, oqty, total) ==
    [date |-> d, cash |-> cash, stocks |-> perStock,
     calls_capital |-> calls, puts_capital |-> puts,
     stocks_qty |-> sqty, options_qty |-> oqty,
     options_capital |-> NaN, stocks_capital |-> NaN, total_capital |-> total]

NoStockColumns == [i \in DOMAIN Stocks |-> NaN]

\* A variant of run_asserts without the comparison of the date sets.
run_asserts_no_dates == unmet \subseteq {"dates"}

\* run, lines 84-94: every assertion passes.
run_asserts == unmet = {}

\* run, lines 84-94: an assertion fails and run raises AssertionError.
run_raise ==
    /\ pc = "idle"
    /\ ~run_asserts
    /\ pc' = "raised"
    /\ UNCHANGED <<unmet, sma_days, rebalances, direct_calls,
                   allocation, strategy, dates, stocks_data, options_data, rebalance_freq,
                   date, previous_rb_date, total_capital, current_cash,
                   stocks_inventory, options_inventory, trade_log, balance, in_effect>>

\* run, lines 96-113: initialise the run state.
run(freq, sma) ==
    /\ pc = "idle"
    /\ run_asserts
    /\ rebalance_freq' = freq
    /\ sma_days' = sma
    /\ rebalances' = <<>>
    /\ stocks_inventory' = <<>>
    /\ options_inventory' = <<>>
    /\ current_cash' = InitialCapital
    /\ trade_log' = <<>>
    /\ balance' = << BalanceRow(StartDate - 1, <<InitialCapital>>, NoStockColumns,
                                NaN, NaN, NaN, NaN, <<InitialCapital>>) >>
    /\ pc' = "loop"
    /\ UNCHANGED <<unmet, direct_calls, allocation, strategy, dates, stocks_data, options_data,
                   date, previous_rb_date, total_capital, in_effect>>

Holdings == [cash |-> current_cash, stocks |-> stocks_inventory, options |-> options_inventory]

\* run, lines 118-121: the iterator yields the next date and its slices.
run_next_date(stocks, options) ==
    /\ pc = "loop"
    /\ date < EndDate
    /\ LET d == CHOOSE x \in dates : x > date /\ \A y \in dates : y > date => x <= y
       IN  /\ date' = d
           /\ stocks_data' = (d :> stocks) @@ stocks_data
           /\ options_data' = (d :> options) @@ options_data
           /\ IF ~IsRebalancingDay(d)
              THEN /\ pc' = "loop"
                   /\ in_effect' = (d :> Holdings) @@ in_effect
                   /\ UNCHANGED previous_rb_date
              ELSE IF Occurrences(d) # 1
              THEN \* get_loc returns a slice (`slice - 1` raises TypeError) or
                   \* raises KeyError
                   /\ pc' = "error"
                   /\ UNCHANGED <<previous_rb_date, in_effect>>
              ELSE /\ previous_rb_date' = PreviousRbDate(d)
                   /\ pc' = "flush"
                   /\ UNCHANGED in_effect
    /\ UNCHANGED <<unmet, sma_days, rebalances, direct_calls,
                   allocation, strategy, dates, rebalance_freq, total_capital,
                   current_cash, stocks_inventory, options_inventory, trade_log, balance>>

(***************************************************************************)
(* _update_balance                                                         *)
(***************************************************************************)
\* NaN-propagating addition of two cells.
AddCells(a, b) == IF IsNaN(a) \/ IsNaN(b) THEN NaN ELSE <<Val(a) + Val(b)>>

RECURSIVE SumCells(_)
SumCells(s) == IF s = <<>> THEN <<0>> ELSE AddCells(Head(s), SumCells(Tail(s)))

\* The rows of a slice for one contract / one symbol (a merge on that key).
ContractRows(options, contract) ==
    Select(options, [k \in DOMAIN options |-> options[k].contract = contract])
SymbolRows(stocks, symbol) ==
    Select(stocks, [k \in DOMAIN stocks |-> stocks[k].symbol = symbol])
HeldRows(symbol) ==
    Select(stocks_inventory,
           [k \in DOMAIN stocks_inventory |-> stocks_inventory[k].symbol = symbol])

\* A variant of InInterval whose interval is closed at its end.
InIntervalClosed(t, start, end) == start <= t /\ t <= end

\* The query '(date >= start) & (date < end)'.
InInterval(t, start, end) == start <= t /\ t < end
IntervalDates(start, end) ==
    SortedSeq({t \in DOMAIN stocks_data : InInterval(t, start, end)})

\* current[(~leg.direction).value] * qty * shares_per_contract for leg i of
\* inventory row r on date t; NaN when the contract has no quote that date.
LegValue(r, i, t) ==
    LET col == DirectionValue(Invert(strategy[i].direction))
        q   == ContractRows(options_data[t], options_inventory[r].legs[i].contract)
    IN  IF q = <<>> THEN NaN
        ELSE <<q[1][col] * options_inventory[r].totals.qty * SharesPerContract>>

\* calls_value / puts_value on date t.
TypeValue(type, t) ==
    LET rowCells(r) ==
            SumCells([i \in DOMAIN strategy |->
                        IF options_inventory[r].legs[i].type = type
                        THEN LegValue(r, i, t) ELSE <<0>>])
    IN  SumCells([r \in DOMAIN options_inventory |-> rowCells(r)])

\* The stock's column of `add` on date t: qty * adjClose.
StockCell(symbol, t) ==
    LET inv == HeldRows(symbol)
        dat == SymbolRows(stocks_data[t], symbol)
    IN  IF inv = <<>> \/ dat = <<>> THEN NaN ELSE <<inv[1].qty * dat[1].adjClose>>

StocksQty == SumSeq([k \in DOMAIN stocks_inventory |-> stocks_inventory[k].qty])
OptionsQty == SumSeq([r \in DOMAIN options_inventory |-> options_inventory[r].totals.qty])

\* `add`: one row per date of the interval that has a stock column value.
_update_balance_add(start, end) ==
    LET all == IntervalDates(start, end)
        ds  == Select(all, [k \in DOMAIN all |->
                              \E i \in DOMAIN Stocks : ~IsNaN(StockCell(Stocks[i].symbol, all[k]))])
    IN  [k \in DOMAIN ds |->
            BalanceRow(ds[k], <<current_cash>>,
                       [i \in DOMAIN Stocks |-> StockCell(Stocks[i].symbol, ds[k])],
                       TypeValue("call", ds[k]), TypeValue("put", ds[k]),
                       <<StocksQty>>, <<OptionsQty>>, NaN)]

\* run, line 122: flush the ledger for [previous_rb_date, date).
run_update_balance ==
    /\ pc = "flush"
    /\ balance' = balance \o _update_balance_add(previous_rb_date, date)
    /\ pc' = "sell"
    /\ UNCHANGED <<unmet, sma_days, rebalances, direct_calls,
                   allocation, strategy, dates, stocks_data, options_data, rebalance_freq,
                   date, previous_rb_date, total_capital, current_cash,
                   stocks_inventory, options_inventory, trade_log, in_effect>>

(***************************************************************************)
(* _get_current_option_quotes, _impute_missing_option_values,              *)
(* _sell_options.  A frame is a sequence of rows (indexed like the         *)
(* inventory), a row a sequence over the legs of records of cells.         *)
(***************************************************************************)
\* A variant of CurrentQuoteCell that does not negate the cost of a leg
\* closed by selling.
CurrentQuoteCellUnsigned(r, i, options) ==
    LET dir == strategy[i].direction
        col == DirectionValue(Invert(dir))
        q   == ContractRows(options, options_inventory[r].legs[i].contract)
        raw == IF q = <<>> THEN NaN ELSE <<q[1][col]>>
    IN  [contract |-> <<options_inventory[r].legs[i].contract>>,
         type     |-> IF q = <<>> THEN NaN ELSE <<q[1].type>>,
         cost     |-> IF IsNaN(raw) THEN NaN ELSE <<Val(raw) * SharesPerContract>>,
         order    |-> <<get_order(dir, "EXIT")>>]

\* Leg i's frame: the inventory's contracts left-joined with the slice.
CurrentQuoteCell(r, i, options) ==
    LET dir == strategy[i].direction
        col == DirectionValue(Invert(dir))
        q   == ContractRows(options, options_inventory[r].legs[i].contract)
        raw == IF q = <<>> THEN NaN ELSE <<q[1][col]>>
        signed == IF IsNaN(raw) THEN NaN
                  ELSE IF Invert(dir) = "SELL" THEN <<0 - Val(raw)>> ELSE raw
    IN  [contract |-> <<options_inventory[r].legs[i].contract>>,
         type     |-> IF q = <<>> THEN NaN ELSE <<q[1].type>>,
         cost     |-> IF IsNaN(signed) THEN NaN ELSE <<Val(signed) * SharesPerContract>>,
         order    |-> <<get_order(dir, "EXIT")>>]

_get_current_option_quotes(options) ==
    [r \in DOMAIN options_inventory |->
        [i \in DOMAIN strategy |-> CurrentQuoteCell(r, i, options)]]

\* The leg blocks of the inventory as a frame of cells.
InventoryFrame ==
    [r \in DOMAIN options_inventory |->
        [i \in DOMAIN strategy |->
            [f \in DOMAIN options_inventory[r].legs[i] |-> <<options_inventory[r].legs[i][f]>>]]]

\* DataFrame.fillna(other): a NaN cell takes other's cell of the same label.
FillNa(a, b) ==
    [r \in DOMAIN a |-> [i \in DOMAIN a[r] |->
        [f \in DOMAIN a[r][i] |-> IF IsNaN(a[r][i][f]) THEN b[r][i][f] ELSE a[r][i][f]]]]

\* _impute_missing_option_values(exit_candidates): fill from a copy of the
\* inventory whose leg costs are set to zero.
_impute_missing_option_values(exit_candidates) ==
    LET df == [r \in DOMAIN InventoryFrame |-> [i \in DOMAIN InventoryFrame[r] |->
                  [InventoryFrame[r][i] EXCEPT !.cost = <<0>>]]]
    IN  FillNa(exit_candidates, df)

\* sum([candidates[l.name]['cost'] for l in legs]), per row.
FrameTotalCosts(frame) ==
    [r \in DOMAIN frame |-> SumCells([i \in DOMAIN frame[r] |-> frame[r][i].cost])]

\* A filled frame row with its totals block, as stored in inventory and trade log.
PlainRow(frow, cost, qty, d) ==
    [legs |-> [i \in DOMAIN frow |-> [f \in DOMAIN frow[i] |-> Val(frow[i][f])]],
     totals |-> [cost |-> cost, qty |-> qty, date |-> d]]

\* The frame _sell_options logs: the current quotes, NaN cells filled from
\* _impute_missing_option_values(self._options_inventory).
SellCandidates(options) ==
    FillNa(_get_current_option_quotes(options), _impute_missing_option_values(InventoryFrame))

\* The candidates with their totals block: the total cost, the held quantity
\* and the date of the call.
SellExits(options, d) ==
    LET candidates == SellCandidates(options)
        costs == FrameTotalCosts(candidates)
    IN  [r \in DOMAIN candidates |->
            PlainRow(candidates[r], Val(costs[r]), options_inventory[r].totals.qty, d)]

\* sum(total_costs), after total_costs *= candidates['totals']['qty'].
SellDebit(options, d) ==
    LET exits == SellExits(options, d)
    IN  SumSeq([r \in DOMAIN exits |-> exits[r].totals.cost * exits[r].totals.qty])

\* A variant of _sell_options that closes only the combinations whose
\* contracts are all quoted in the slice and keeps the others.
_sell_options_quoted ==
    /\ pc = "sell"
    /\ LET mask == [r \in DOMAIN options_inventory |->
                      \A i \in DOMAIN strategy :
                          ContractRows(options_data[date],
                                       options_inventory[r].legs[i].contract) # <<>>]
           keep == [r \in DOMAIN options_inventory |-> ~mask[r]]
           sold == Select(SellExits(options_data[date], date), mask)
       IN  /\ options_inventory' = Select(options_inventory, keep)
           /\ trade_log' = trade_log \o sold
           /\ current_cash' = current_cash -
                 SumSeq([r \in DOMAIN sold |-> sold[r].totals.cost * sold[r].totals.qty])
    /\ pc' = "alloc"
    /\ UNCHANGED <<unmet, sma_days, rebalances, direct_calls,
                   allocation, strategy, dates, stocks_data, options_data, rebalance_freq,
                   date, previous_rb_date, total_capital, stocks_inventory, balance,
                   in_effect>>

\* _rebalance_portfolio, line 177: _sell_options(options, date).
_sell_options ==
    /\ pc = "sell"
    /\ options_inventory' = <<>>
    /\ trade_log' = trade_log \o SellExits(options_data[date], date)
    /\ current_cash' = current_cash - SellDebit(options_data[date], date)
    /\ pc' = "alloc"
    /\ UNCHANGED <<unmet, sma_days, rebalances, direct_calls,
                   allocation, strategy, dates, stocks_data, options_data, rebalance_freq,
                   date, previous_rb_date, total_capital, stocks_inventory, balance,
                   in_effect>>

(***************************************************************************)
(* _rebalance_portfolio, _current_stock_capital, _buy_stocks               *)
(***************************************************************************)
\* A variant of _current_stock_capital that forgets the stocks held.
_current_stock_capital_none(stocks) == 0

\* _current_stock_capital: the inventory left-joined with the slice; a stock
\* without a price contributes nothing to the sum.
_current_stock_capital(stocks) ==
    SumSeq([k \in DOMAIN stocks_inventory |->
              LET q == SymbolRows(stocks, stocks_inventory[k].symbol)
              IN  IF q = <<>> THEN 0 ELSE q[1].adjClose * stocks_inventory[k].qty])

\* _rebalance_portfolio, lines 179-182.  The targets are allocation[asset] *
\* total_capital; they are kept as the exact fraction
\* allocation.asset * total_capital / TotalAllocation(allocation).
_rebalance_portfolio_targets ==
    /\ pc = "alloc"
    /\ total_capital' = current_cash + _current_stock_capital(stocks_data[date])
    /\ pc' = "buy"
    /\ UNCHANGED <<unmet, sma_days, rebalances, direct_calls,
                   allocation, strategy, dates, stocks_data, options_data, rebalance_freq,
                   date, previous_rb_date, current_cash, stocks_inventory,
                   options_inventory, trade_log, balance, in_effect>>

\* (allocation * stock_percentage) // stock_price
StockQty(alloc_num, alloc_den, stock, price) ==
    FloorDiv(alloc_num * stock.pnum, alloc_den * stock.pden * price)

\* TiingoData.sma(sma_days): the 'sma' column of the symbol's row on date d,
\* the mean of its last sma_days prices, kept as their sum; NaN while fewer
\* than sma_days prices exist.
Sma(symbol, d) ==
    LET past   == {t \in DOMAIN stocks_data : t <= d}
        window == {t \in past : Cardinality({u \in past : u > t}) < sma_days}
        prices == SortedSeq(window)
    IN  IF Cardinality(window) < sma_days THEN NaN
        ELSE <<SumSeq([k \in DOMAIN prices |->
                        SymbolRows(stocks_data[prices[k]], symbol)[1].adjClose])>>

\* inventory_stocks['sma'] < stock_prices; a comparison with NaN is False.
SmaBelowPrice(symbol, d, price) ==
    ~IsNaN(Sma(symbol, d)) /\ Val(Sma(symbol, d)) < sma_days * price

\* _buy_stocks: the rows of the configured symbols, in slice order, matched by
\* position with the configured stocks.
BuyStocksInventory(stocks, alloc_num, alloc_den) ==
    LET inventory_stocks ==
            Select(stocks, [k \in DOMAIN stocks |->
                              \E i \in DOMAIN Stocks : Stocks[i].symbol = stocks[k].symbol])
        floor(k) == StockQty(alloc_num, alloc_den, Stocks[k], inventory_stocks[k].adjClose)
    IN  [k \in DOMAIN Stocks |->
            [symbol |-> Stocks[k].symbol,
             price  |-> inventory_stocks[k].adjClose,
             qty    |-> IF sma_days # 0
                        THEN (IF SmaBelowPrice(inventory_stocks[k].symbol, date,
                                               inventory_stocks[k].adjClose)
                              THEN floor(k) ELSE 0)
                        ELSE floor(k)]]

\* _rebalance_portfolio, lines 185-187: clear the inventories, buy the stocks.
_buy_stocks ==
    /\ pc = "buy"
    /\ options_inventory' = <<>>
    /\ stocks_inventory' =
          BuyStocksInventory(stocks_data[date], allocation.stocks * total_capital,
                             TotalAllocation(allocation))
    /\ pc' = "entries"
    /\ UNCHANGED <<unmet, sma_days, rebalances, direct_calls,
                   allocation, strategy, dates, stocks_data, options_data, rebalance_freq,
                   date, previous_rb_date, total_capital, current_cash, trade_log,
                   balance, in_effect>>

(***************************************************************************)
(* _execute_option_entries, _pick_entry_signals                            *)
(***************************************************************************)
InventoryContracts ==
    { options_inventory[r].legs[i].contract :
        r \in DOMAIN options_inventory, i \in DOMAIN strategy }

\* Leg i's entry frame: the filtered rows, cost signed and scaled.
LegEntries(i, subset_options) ==
    LET leg  == strategy[i]
        rows == Select(subset_options,
                       [k \in DOMAIN subset_options |-> EntryFilter(leg, subset_options[k])])
        cost(r) == (IF leg.direction = "SELL" THEN 0 - r[DirectionValue(leg.direction)]
                    ELSE r[DirectionValue(leg.direction)]) * SharesPerContract
    IN  [k \in DOMAIN rows |->
            [contract |-> <<rows[k].contract>>, type |-> <<rows[k].type>>,
             cost |-> <<cost(rows[k])>>, order |-> <<get_order(leg.direction, "ENTRY")>>]]

NaNLeg == [contract |-> NaN, type |-> NaN, cost |-> NaN, order |-> NaN]

MaxLen(frames) ==
    CHOOSE n \in {Len(frames[i]) : i \in DOMAIN frames} :
        \A i \in DOMAIN frames : Len(frames[i]) <= n

\* pd.concat(entry_signals, axis=1): rows aligned by position, NaN where a
\* leg has fewer candidates.
EntrySignals(subset_options) ==
    LET frames == [i \in DOMAIN strategy |-> LegEntries(i, subset_options)]
    IN  [r \in 1..MaxLen(frames) |->
            [i \in DOMAIN strategy |->
                IF r <= Len(frames[i]) THEN frames[i][r] ELSE NaNLeg]]

\* np.abs(options_allocation // total_costs)
EntryQty(alloc_num, alloc_den, total_cost) ==
    Abs(FloorDiv(alloc_num, alloc_den * total_cost))

\* A variant of _pick_entry_signals that executes every entry signal.
_pick_entry_signals_all(entry_signals) == entry_signals

\* A variant of _pick_entry_signals that picks the last row.
_pick_entry_signals_last(entry_signals) ==
    IF entry_signals # <<>> THEN <<entry_signals[Len(entry_signals)]>> ELSE entry_signals

\* _pick_entry_signals: the first row when there is one.
_pick_entry_signals(entry_signals) ==
    IF entry_signals # <<>> THEN <<entry_signals[1]>> ELSE entry_signals

\* self.current_cash -= sum(total_costs)
EntryDebit(total_costs) == Val(SumCells(total_costs))

\* options without the contracts already in the inventory.
SubsetOptions(options) ==
    Select(options, [k \in DOMAIN options |->
                       options[k].contract \notin InventoryContracts])

\* leg_entries.empty for some leg.
SomeLegEmpty(options) ==
    \E i \in DOMAIN strategy : LegEntries(i, SubsetOptions(options)) = <<>>

\* entry_signals with its totals block: total cost, quantity and date.
EntryRows(options, d) ==
    LET signals == EntrySignals(SubsetOptions(options))
        total_costs == FrameTotalCosts(signals)
    IN  [r \in DOMAIN signals |->
            PlainRow(signals[r], Val(total_costs[r]),
                     EntryQty(allocation.options * total_capital,
                              TotalAllocation(allocation), Val(total_costs[r])),
                     d)]

\* A variant of _execute_option_entries that, when a leg has no candidate,
\* still pays for the first candidate of the legs that have one.
_execute_option_entries_partial ==
    /\ pc = "entries"
    /\ IF SomeLegEmpty(options_data[date])
       THEN /\ UNCHANGED <<options_inventory, trade_log>>
            /\ current_cash' =
                  current_cash -
                  SumSeq([i \in DOMAIN strategy |->
                            LET frame == LegEntries(i, SubsetOptions(options_data[date]))
                            IN  IF frame = <<>> THEN 0 ELSE Val(frame[1].cost)])
       ELSE /\ options_inventory' =
                  options_inventory \o _pick_entry_signals(EntryRows(options_data[date], date))
            /\ trade_log' =
                  trade_log \o _pick_entry_signals(EntryRows(options_data[date], date))
            /\ current_cash' =
                  current_cash -
                  EntryDebit(FrameTotalCosts(EntrySignals(SubsetOptions(options_data[date]))))
    /\ pc' = "cash"
    /\ UNCHANGED <<unmet, sma_days, rebalances, direct_calls,
                   allocation, strategy, dates, stocks_data, options_data, rebalance_freq,
                   date, previous_rb_date, total_capital, stocks_inventory, balance,
                   in_effect>>

\* _rebalance_portfolio, line 188: _execute_option_entries.
_execute_option_entries ==
    /\ pc = "entries"
    /\ IF SomeLegEmpty(options_data[date])
       THEN UNCHANGED <<options_inventory, trade_log, current_cash>>
       ELSE /\ options_inventory' =
                  options_inventory \o _pick_entry_signals(EntryRows(options_data[date], date))
            /\ trade_log' =
                  trade_log \o _pick_entry_signals(EntryRows(options_data[date], date))
            /\ current_cash' =
                  current_cash -
                  EntryDebit(FrameTotalCosts(EntrySignals(SubsetOptions(options_data[date]))))
    /\ pc' = "cash"
    /\ UNCHANGED <<unmet, sma_days, rebalances, direct_calls,
                   allocation, strategy, dates, stocks_data, options_data, rebalance_freq,
                   date, previous_rb_date, total_capital, stocks_inventory, balance,
                   in_effect>>

StocksValue(inv) == SumSeq([k \in DOMAIN inv |-> inv[k].price * inv[k].qty])
OptionsValue(inv) == SumSeq([r \in DOMAIN inv |-> inv[r].totals.cost * inv[r].totals.qty])

\* A variant of _rebalance_portfolio_cash that keeps the running cash (already debited by the
\* entry execution) and only takes the stocks bought off it.
_rebalance_portfolio_cash_running ==
    /\ pc = "cash"
    /\ current_cash' = current_cash - StocksValue(stocks_inventory)
    /\ pc' = (IF direct_calls = 0 THEN "loop" ELSE "done")
    /\ in_effect' = (date :> [cash |-> current_cash', stocks |-> stocks_inventory,
                              options |-> options_inventory]) @@ in_effect
    /\ rebalances' = Append(rebalances,
                            [date |-> date, cash |-> current_cash',
                             stocks |-> stocks_inventory, options |-> options_inventory])
    /\ UNCHANGED <<unmet, sma_days, direct_calls,
                   allocation, strategy, dates, stocks_data, options_data, rebalance_freq,
                   date, previous_rb_date, total_capital, stocks_inventory,
                   options_inventory, trade_log, balance>>

\* _rebalance_portfolio, lines 190-194: cash is the residual; control returns
\* to run's loop, or to the caller of a direct call.
_rebalance_portfolio_cash ==
    /\ pc = "cash"
    /\ current_cash' = total_capital - OptionsValue(options_inventory)
                                     - StocksValue(stocks_inventory)
    /\ pc' = (IF direct_calls = 0 THEN "loop" ELSE "done")
    /\ in_effect' = (date :> [cash |-> current_cash', stocks |-> stocks_inventory,
                              options |-> options_inventory]) @@ in_effect
    /\ rebalances' = Append(rebalances,
                            [date |-> date, cash |-> current_cash',
                             stocks |-> stocks_inventory, options |-> options_inventory])
    /\ UNCHANGED <<unmet, sma_days, direct_calls,
                   allocation, strategy, dates, stocks_data, options_data, rebalance_freq,
                   date, previous_rb_date, total_capital, stocks_inventory,
                   options_inventory, trade_log, balance>>

(***************************************************************************)
(* run, lines 127-136: the final flush and the derived columns.            *)
(***************************************************************************)
\* Series.add(other, level, fill_value=0) on equal indexes: `level` plays no
\* part; a NaN operand counts as 0 unless both are NaN.
SeriesAdd(a, other, level) ==
    IF IsNaN(a) /\ IsNaN(other) THEN NaN
    ELSE <<(IF IsNaN(a) THEN 0 ELSE Val(a)) + (IF IsNaN(other) THEN 0 ELSE Val(other))>>

DerivedColumns(row) ==
    LET options_capital == AddCells(row.calls_capital, row.puts_capital)
        stocks_capital  == SumCells(row.stocks)
    IN  [row EXCEPT !.options_capital = options_capital,
                    !.stocks_capital = stocks_capital,
                    !.total_capital = SeriesAdd(row.cash, stocks_capital, options_capital)]

run_finish ==
    /\ pc = "loop"
    /\ date = EndDate
    /\ balance' =
          LET flushed == balance \o _update_balance_add(rebalancing_days[Len(rebalancing_days)], EndDate)
          IN  [k \in DOMAIN flushed |-> DerivedColumns(flushed[k])]
    /\ pc' = "done"
    /\ UNCHANGED <<unmet, sma_days, rebalances, direct_calls,
                   allocation, strategy, dates, stocks_data, options_data, rebalance_freq,
                   date, previous_rb_date, total_capital, current_cash, stocks_inventory,
                   options_inventory, trade_log, in_effect>>

Next ==
    \/ run_raise
    \/ \E freq \in 0..MaxFreq : run(freq, 0)
    \/ \E stocks \in StockSlices, options \in OptionSlices : run_next_date(stocks, options)
    \/ run_update_balance
    \/ _sell_options
    \/ _rebalance_portfolio_targets
    \/ _buy_stocks
    \/ _execute_option_entries
    \/ _rebalance_portfolio_cash
    \/ run_finish

Spec == Init /\ [][Next]_vars

(***************************************************************************)
(* run with an SMA window.                                                 *)
(***************************************************************************)
NextSma ==
    \/ Next
    \/ \E freq \in 0..MaxFreq, sma \in 1..MaxSma : run(freq, sma)

SpecSma == Init /\ [][NextSma]_vars

(***************************************************************************)
(* The methods of a Backtest called directly once run has returned, on the *)
(* last date and its slices.                                               *)
(***************************************************************************)
\* _rebalance_portfolio(date, stocks, options, sma_days), called directly.
_rebalance_portfolio_call ==
    /\ pc = "done"
    /\ direct_calls < MaxCalls
    /\ direct_calls' = direct_calls + 1
    /\ pc' = "sell"
    /\ UNCHANGED <<unmet, sma_days, rebalances,
                   allocation, strategy, dates, stocks_data, options_data, rebalance_freq,
                   date, previous_rb_date, total_capital, current_cash,
                   stocks_inventory, options_inventory, trade_log, balance, in_effect>>

\* _execute_option_exits(date, options), lines 399-424: the quotes, the
\* filter masks and the imputed candidates are locals; line 424 reads
\* self.legs, an attribute a Backtest does not have, and raises
\* AttributeError before anything is stored.
_execute_option_exits ==
    /\ pc = "done"
    /\ pc' = "exits_error"
    /\ UNCHANGED <<unmet, sma_days, rebalances, direct_calls,
                   allocation, strategy, dates, stocks_data, options_data, rebalance_freq,
                   date, previous_rb_date, total_capital, current_cash,
                   stocks_inventory, options_inventory, trade_log, balance, in_effect>>

NextExits ==
    \/ Next
    \/ _execute_option_exits

SpecExits == Init /\ [][NextExits]_vars

\* Backtests whose allocation gives nothing to options.
InitRebalance == Init /\ allocation.options = 0

NextRebalance ==
    \/ Next
    \/ _rebalance_portfolio_call

SpecRebalance == InitRebalance /\ [][NextRebalance]_vars

(***************************************************************************)
(* Properties.                                                             *)
(***************************************************************************)
Rebalancing == pc \in {"sell", "alloc", "buy", "entries", "cash"}
\* The current date has been processed and was a rebalancing date.
Rebalanced == pc = "loop" /\ date > 0 /\ IsRebalancingDay(date)
IsExitRow(row) == \E i \in DOMAIN row.legs : row.legs[i].order \in {"STC", "BTC"}
Quoted(contract, t) == ContractRows(options_data[t], contract) # <<>>

\* C1: after run completes, every row of the balance ledger (whose three
\* addends are numbers) has total capital = cash + stocks capital + options
\* capital.
C1_TotalCapitalIdentity ==
    pc = "done" =>
        \A k \in DOMAIN balance :
            LET row == balance[k]
            IN  (~IsNaN(row.stocks_capital) /\ ~IsNaN(row.options_capital)) =>
                    row.total_capital =
                        <<Val(row.cash) + Val(row.stocks_capital) + Val(row.options_capital)>>

\* C2: in every exit logged by the forced liquidation, a leg whose contract
\* is absent from that date's option slice has closing cost zero, and the
\* combination's total exit cost is the sum of the costs of its quoted legs.
C2_MissingLegCostsNothing ==
    \A k \in DOMAIN trade_log :
        LET row == trade_log[k]
            quotedCost == SumSeq([i \in DOMAIN row.legs |->
                                    IF Quoted(row.legs[i].contract, row.totals.date)
                                    THEN row.legs[i].cost ELSE 0])
        IN  IsExitRow(row) =>
                /\ \A i \in DOMAIN row.legs :
                      ~Quoted(row.legs[i].contract, row.totals.date) => row.legs[i].cost = 0
                /\ row.totals.cost = quotedCost

\* C3: once a date is processed, no held combination has a contract that is
\* missing from that date's option quotes (it was exited that date).
C3_MissingContractExits ==
    (pc = "loop" /\ date > 0) =>
        \A r \in DOMAIN options_inventory : \A i \in DOMAIN options_inventory[r].legs :
            Quoted(options_inventory[r].legs[i].contract, date)

\* C4: after run completes, the ledger opens with the snapshot of the day
\* before start_date (cash = total capital = initial capital) and holds a
\* snapshot for end_date.
C4_LedgerSpansToEndDate ==
    pc = "done" =>
        /\ balance[1].date = StartDate - 1
        /\ balance[1].cash = <<InitialCapital>>
        /\ balance[1].total_capital = <<InitialCapital>>
        /\ \E k \in DOMAIN balance : balance[k].date = EndDate

\* C5: the ledger is chronological and every data date from start_date up
\* to the last flushed date has exactly one snapshot.
C5_LedgerContiguous ==
    (pc \notin {"idle", "raised"}) =>
        /\ \A j, k \in DOMAIN balance : j < k => balance[j].date < balance[k].date
        /\ \A t \in dates :
              t <= balance[Len(balance)].date =>
                  Cardinality({k \in DOMAIN balance : balance[k].date = t}) = 1

\* The closing quote of a held leg on date t, times quantity and multiplier.
HeldLegValue(h, r, i, t) ==
    LET q == ContractRows(options_data[t], h.options[r].legs[i].contract)
    IN  (IF strategy[i].direction = "BUY" THEN q[1].bid ELSE q[1].ask)
            * h.options[r].totals.qty * SharesPerContract

\* Ledger row `row` values the holdings h at the prices of the row's date.
RowReflects(row, h) ==
    /\ row.cash = <<h.cash>>
    /\ row.stocks_qty = <<SumSeq([k \in DOMAIN h.stocks |-> h.stocks[k].qty])>>
    /\ row.options_qty = <<SumSeq([r \in DOMAIN h.options |-> h.options[r].totals.qty])>>
    /\ \A i \in DOMAIN Stocks : \A k \in DOMAIN h.stocks :
          h.stocks[k].symbol = Stocks[i].symbol =>
              row.stocks[i] =
                  <<h.stocks[k].qty * SymbolRows(stocks_data[row.date], Stocks[i].symbol)[1].adjClose>>
    /\ (\A r \in DOMAIN h.options : \A i \in DOMAIN strategy :
            Quoted(h.options[r].legs[i].contract, row.date)) =>
         AddCells(row.calls_capital, row.puts_capital) =
            <<SumSeq([r \in DOMAIN h.options |->
                        SumSeq([i \in DOMAIN strategy |-> HeldLegValue(h, r, i, row.date)])])>>

\* C6: the flush for the interval ending at a rebalancing date precedes the
\* rebalance (while the rebalance runs, the ledger holds a row for every date
\* of the interval and none for the rebalancing date), and every snapshot
\* values the holdings and cash that were in effect on its own date.
C6_FlushUsesHoldingsInEffect ==
    /\ \A k \in DOMAIN balance :
          balance[k].date \in DOMAIN in_effect =>
              RowReflects(balance[k], in_effect[balance[k].date])
    /\ Rebalancing =>
          /\ \A k \in DOMAIN balance : balance[k].date < date
          /\ \A t \in DOMAIN stocks_data :
                (previous_rb_date <= t /\ t < date) =>
                    \E k \in DOMAIN balance : balance[k].date = t

\* A snapshot of an earlier period with options held is in the ledger after
\* a later rebalance has changed the holdings and the cash.
C6_Witness ==
    /\ Rebalanced
    /\ \E k \in DOMAIN balance :
          /\ balance[k].date \in DOMAIN in_effect
          /\ balance[k].options_qty # <<0>>
          /\ in_effect[balance[k].date].stocks # stocks_inventory
          /\ in_effect[balance[k].date].cash # current_cash

\* C7: entering a combination decreases cash by exactly its total cost per
\* unit times its quantity.
C7_EntryDebitsCostTimesQty ==
    [][(pc = "entries" /\ Len(options_inventory') > Len(options_inventory)) =>
          LET entered == options_inventory'[Len(options_inventory')]
          IN  current_cash' = current_cash - entered.totals.cost * entered.totals.qty]_vars

\* C8: after every rebalance cash + stocks value + options value of the new
\* inventories equals the total capital of that rebalance, which is the cash
\* after the forced liquidation plus the old stocks at the current prices.
C8_CashIsResidual ==
    /\ pc = "buy" =>
          total_capital =
              current_cash +
              SumSeq([k \in DOMAIN stocks_inventory |->
                        stocks_inventory[k].qty *
                        SymbolRows(stocks_data[date], stocks_inventory[k].symbol)[1].adjClose])
    /\ Rebalanced =>
          current_cash
            + SumSeq([k \in DOMAIN stocks_inventory |->
                        stocks_inventory[k].price * stocks_inventory[k].qty])
            + SumSeq([r \in DOMAIN options_inventory |->
                        options_inventory[r].totals.cost * options_inventory[r].totals.qty])
            = total_capital

\* A second rebalance (old stocks held) has entered stocks and options.
C8_Witness ==
    /\ Rebalanced
    /\ date # StartDate
    /\ options_inventory # <<>> /\ options_inventory[1].totals.qty > 0
    /\ stocks_inventory # <<>> /\ stocks_inventory[1].qty > 0
    /\ current_cash # 0

\* The entry cost of leg i of a combination on date t: the ask for a BUY leg,
\* minus the bid for a SELL leg, times the multiplier.
SignedEntryCost(row, i, t) ==
    LET q == ContractRows(options_data[t], row.legs[i].contract)
    IN  (IF strategy[i].direction = "BUY" THEN q[1].ask ELSE 0 - q[1].bid) * SharesPerContract

\* C9: the quantity of an entered combination is floor(|options target| /
\* total cost), the total cost being the sum of the signed leg costs; for a
\* negative total cost the quotient is read either as written or on the
\* magnitude of the cost.
C9_EntryQuantityIsFloor ==
    pc = "cash" =>
        \A r \in DOMAIN options_inventory :
            LET row == options_inventory[r]
                num == Abs(allocation.options * total_capital)
                den == TotalAllocation(allocation)
            IN  /\ row.totals.cost =
                      SumSeq([i \in DOMAIN row.legs |-> SignedEntryCost(row, i, date)])
                /\ \/ row.totals.qty = FloorDiv(num, den * row.totals.cost)
                   \/ row.totals.qty = FloorDiv(num, den * Abs(row.totals.cost))

\* C10: every stock holding's quantity is non-negative.
C10_StockQtyNonNegative ==
    \A k \in DOMAIN stocks_inventory : stocks_inventory[k].qty >= 0

\* C11: the liquidation step of a rebalance empties the options inventory
\* and appends to the trade log exactly one exit record per combination
\* held before it, in order, with that combination's contracts and
\* quantity and the date of the rebalance; the earlier log is kept.
C11_LiquidationLogsEveryHolding ==
    [][pc = "sell" =>
          /\ options_inventory' = <<>>
          /\ Len(trade_log') = Len(trade_log) + Len(options_inventory)
          /\ SubSeq(trade_log', 1, Len(trade_log)) = trade_log
          /\ \A r \in DOMAIN options_inventory :
                LET held == options_inventory[r]
                    rec  == trade_log'[Len(trade_log) + r]
                IN  /\ rec.totals.qty = held.totals.qty
                    /\ rec.totals.date = date
                    /\ \A i \in DOMAIN strategy :
                          /\ rec.legs[i].contract = held.legs[i].contract
                          /\ rec.legs[i].order \in {"STC", "BTC"}]_vars

\* A liquidation has just closed a held combination of non-zero quantity,
\* one of whose contracts was not quoted.
C11_Witness ==
    /\ pc = "alloc"
    /\ options_inventory = <<>>
    /\ trade_log # <<>>
    /\ LET rec == trade_log[Len(trade_log)]
       IN  /\ IsExitRow(rec)
           /\ rec.totals.qty > 0
           /\ rec.totals.date = date
           /\ \E i \in DOMAIN rec.legs : ~Quoted(rec.legs[i].contract, date)

\* C12: when the options allocation is zero and a rebalance is followed
\* directly by another rebalance on the same date (the same slices), the
\* second leaves the stock inventory, the option inventory and cash as the
\* first left them.
C12_RebalanceIdempotent ==
    allocation.options = 0 =>
        \A k \in DOMAIN rebalances :
            (k > 1 /\ rebalances[k].date = rebalances[k - 1].date) =>
                /\ rebalances[k].stocks = rebalances[k - 1].stocks
                /\ rebalances[k].options = rebalances[k - 1].options
                /\ rebalances[k].cash = rebalances[k - 1].cash

\* Two rebalances in a row on one date, with stocks bought, an option
\* combination entered and cash left over.
C12_Witness ==
    /\ allocation.options = 0
    /\ pc = "done"
    /\ \E k \in DOMAIN rebalances :
          /\ k > 1
          /\ rebalances[k].date = rebalances[k - 1].date
          /\ rebalances[k].stocks # <<>> /\ rebalances[k].stocks[1].qty > 0
          /\ rebalances[k].options # <<>>
          /\ rebalances[k].cash > 0

\* C13: when the configuration fails a precondition of run, run raises and
\* never starts: cash, the inventories, the trade log and the balance
\* ledger stay uninitialised and no date is processed.
C13_FailedPreconditionStartsNothing ==
    unmet # {} =>
        /\ pc \in {"idle", "raised"}
        /\ current_cash = 0
        /\ stocks_inventory = <<>>
        /\ options_inventory = <<>>
        /\ trade_log = <<>>
        /\ balance = <<>>
        /\ rebalances = <<>>
        /\ date = 0
        /\ DOMAIN stocks_data = {} /\ DOMAIN options_data = {}

\* run has raised on a configuration whose only fault is that the stock
\* and option date sets differ.
C13_Witness == pc = "raised" /\ unmet = {"dates"}

\* The exit mask of section 4.6 for held combination r on the current date:
\* the threshold predicate over (held cost, current exit cost), or a leg
\* whose exit predicate holds or whose contract is missing from the slice.
ExitSelected(r) ==
    LET quotes == _get_current_option_quotes(options_data[date])[r]
        costs  == [i \in DOMAIN strategy |->
                     IF IsNaN(quotes[i].cost) THEN 0 ELSE Val(quotes[i].cost)]
    IN  \/ filter_thresholds(options_inventory[r].totals.cost, SumSeq(costs))
        \/ \E i \in DOMAIN strategy :
               ExitFilter(strategy[i], quotes[i]) \/ IsNaN(quotes[i].cost)

\* C14: a call of _execute_option_exits removes from the inventory exactly
\* the combinations the exit mask selects, whole, appends one record for
\* each of them to the trade log, and leaves the others in the inventory
\* unchanged.
C14_ExitsExactlyTheSelected ==
    [][pc = "done" =>
          LET mask == [r \in DOMAIN options_inventory |-> ExitSelected(r)]
              keep == [r \in DOMAIN options_inventory |-> ~mask[r]]
              gone == Select(options_inventory, mask)
          IN  /\ options_inventory' = Select(options_inventory, keep)
              /\ Len(trade_log') = Len(trade_log) + Len(gone)
              /\ \A k \in DOMAIN gone : \A i \in DOMAIN strategy :
                    trade_log'[Len(trade_log) + k].legs[i].contract = gone[k].legs[i].contract]_vars

\* Leg i's entry predicate selects no row of the current option slice.
NoCandidate(i) ==
    \A k \in DOMAIN options_data[date] : ~EntryFilter(strategy[i], options_data[date][k])

\* C15: when some leg's entry predicate selects no candidate from the
\* option slice, _execute_option_entries leaves the options inventory, the
\* trade log and cash exactly as they were.
C15_NoPartialEntry ==
    [][(pc = "entries" /\ \E i \in DOMAIN strategy : NoCandidate(i)) =>
          UNCHANGED <<options_inventory, trade_log, current_cash>>]_vars

\* The entry step has run for a two-leg strategy on a slice with a
\* candidate for one leg and none for the other, and entered nothing.
C15_Witness ==
    /\ pc = "cash"
    /\ Len(strategy) = 2
    /\ \E i, j \in DOMAIN strategy : NoCandidate(i) /\ ~NoCandidate(j)
    /\ options_inventory = <<>>

\* C16: with rebalance frequency 0 a run rebalances exactly once, on the
\* first date of the series, however many dates follow; the combination
\* entered there is never liquidated during the run and the trade log holds
\* at most that one entry.
C16_SingleRebalanceAtFrequencyZero ==
    (rebalance_freq = 0 /\ pc \notin {"idle", "raised"}) =>
        /\ Len(rebalances) <= 1
        /\ \A k \in DOMAIN rebalances : rebalances[k].date = StartDate
        /\ (pc \in {"loop", "done"} /\ date > 0) => Len(rebalances) = 1
        /\ Len(trade_log) <= 1
        /\ \A k \in DOMAIN trade_log : ~IsExitRow(trade_log[k])
        /\ (pc \in {"loop", "done"} /\ date > 0) => options_inventory = trade_log

\* A run at frequency 0 over the longest date stream has completed, with
\* the combination entered on the first date still held.
C16_Witness ==
    /\ pc = "done"
    /\ rebalance_freq = 0
    /\ Cardinality(dates) = MaxDates
    /\ Len(trade_log) = 1 /\ trade_log[1].totals.qty > 0
    /\ trade_log[1].totals.date = StartDate

\* The holding of configured stock i after _buy_stocks, the price it was
\* bought at being the stock's price in the current slice.
PriceAboveSma(symbol) ==
    LET price == SymbolRows(stocks_data[date], symbol)[1].adjClose
    IN  ~IsNaN(Sma(symbol, date)) /\ sma_days * price > Val(Sma(symbol, date))

\* C17: after _buy_stocks every configured stock's quantity is
\* floor(stocks target x percentage / price) when no SMA window is set or
\* the price is strictly above the stock's SMA, and 0 otherwise; and
\* quantity x price does not exceed stocks target x percentage.
C17_StockQuantityWithinAllocation ==
    pc = "entries" =>
        \A i \in DOMAIN Stocks :
            LET held  == HeldRows(Stocks[i].symbol)[1]
                price == SymbolRows(stocks_data[date], Stocks[i].symbol)[1].adjClose
                num   == allocation.stocks * total_capital * Stocks[i].pnum
                den   == TotalAllocation(allocation) * Stocks[i].pden
            IN  /\ held.qty = (IF sma_days = 0 \/ PriceAboveSma(Stocks[i].symbol)
                               THEN FloorDiv(num, den * price) ELSE 0)
                /\ held.qty * price * den <= num

\* The contract of the first row of the current slice, in slice order, that
\* leg i's entry predicate accepts.
FirstCandidate(i) ==
    LET slice == options_data[date]
        k == CHOOSE j \in DOMAIN slice :
                 /\ EntryFilter(strategy[i], slice[j])
                 /\ \A h \in DOMAIN slice : EntryFilter(strategy[i], slice[h]) => j <= h
    IN  slice[k].contract

\* C18: when every leg has a candidate, _execute_option_entries appends one
\* and the same combination to the options inventory and to the trade log:
\* the one made of each leg's first candidate in slice order, dated with
\* the current date.
C18_FirstCandidateEntered ==
    [][(pc = "entries" /\ \A i \in DOMAIN strategy : ~NoCandidate(i)) =>
          /\ Len(options_inventory') = Len(options_inventory) + 1
          /\ SubSeq(options_inventory', 1, Len(options_inventory)) = options_inventory
          /\ Len(trade_log') = Len(trade_log) + 1
          /\ SubSeq(trade_log', 1, Len(trade_log)) = trade_log
          /\ trade_log'[Len(trade_log')] = options_inventory'[Len(options_inventory')]
          /\ LET entered == options_inventory'[Len(options_inventory')]
             IN  /\ entered.totals.date = date
                 /\ \A i \in DOMAIN strategy :
                       /\ entered.legs[i].contract = FirstCandidate(i)
                       /\ entered.legs[i].order \in {"BTO", "STO"}]_vars

\* A leg had two candidates in the slice and the first one was entered.
C18_Witness ==
    /\ pc = "cash"
    /\ \E i \in DOMAIN strategy :
          Cardinality({k \in DOMAIN options_data[date] :
                         EntryFilter(strategy[i], options_data[date][k])}) > 1
    /\ Len(options_inventory) = 1
    /\ options_inventory[1].legs[1].contract = options_data[date][1].contract
    /\ trade_log[Len(trade_log)] = options_inventory[1]

RebalancingDates == { rebalancing_days[k] : k \in DOMAIN rebalancing_days }

\* C19: processing a date of the stream that is not a rebalancing date
\* leaves cash, the stock inventory, the option inventory, the trade log and
\* the balance ledger unchanged, and the loop goes on to the next date.
C19_OtherDatesChangeNothing ==
    [][(pc = "loop" /\ date' # date /\ date' \notin RebalancingDates) =>
          /\ pc' = "loop"
          /\ UNCHANGED <<current_cash, stocks_inventory, options_inventory,
                         trade_log, balance>>]_vars

\* A date that is not a rebalancing date has been processed while stocks
\* and an option combination were held.
C19_Witness ==
    /\ pc = "loop"
    /\ date > 0
    /\ date \notin RebalancingDates
    /\ options_inventory # <<>> /\ options_inventory[1].totals.qty > 0
    /\ stocks_inventory # <<>> /\ stocks_inventory[1].qty > 0

\* The cash a forced liquidation realises on leg i of held combination r:
\* bid x multiplier x quantity received for a BUY leg, ask x multiplier x
\* quantity paid for a SELL leg.
LiquidationCash(r, i) ==
    LET q   == ContractRows(options_data[date], options_inventory[r].legs[i].contract)[1]
        qty == options_inventory[r].totals.qty
    IN  IF strategy[i].direction = "BUY"
        THEN q.bid * SharesPerContract * qty
        ELSE 0 - q.ask * SharesPerContract * qty

\* C20: when every held contract is in the current slice, _sell_options
\* changes cash by exactly the sum, over the held combinations and their
\* legs, of + bid x multiplier x quantity for a BUY leg and
\* - ask x multiplier x quantity for a SELL leg.
C20_LiquidationCashDelta ==
    [][(/\ pc = "sell"
        /\ \A r \in DOMAIN options_inventory : \A i \in DOMAIN strategy :
              Quoted(options_inventory[r].legs[i].contract, date)) =>
          current_cash' =
              current_cash +
              SumSeq([r \in DOMAIN options_inventory |->
                        SumSeq([i \in DOMAIN strategy |-> LiquidationCash(r, i)])])]_vars

\* A two-leg combination of non-zero quantity, both contracts quoted, has
\* just been liquidated.
C20_Witness ==
    /\ pc = "alloc"
    /\ Len(strategy) = 2
    /\ trade_log # <<>>
    /\ LET rec == trade_log[Len(trade_log)]
       IN  /\ IsExitRow(rec)
           /\ rec.totals.date = date
           /\ rec.totals.qty > 0
           /\ \A i \in DOMAIN rec.legs : Quoted(rec.legs[i].contract, date)

\* C21: the rebalancing-date sequence run builds is strictly increasing and
\* holds the series start date exactly once, so every rebalancing date has
\* one position in it and the start date's previous rebalancing date is
\* itself.
C21_RebalancingDaysStrictlyIncreasing ==
    (pc \notin {"idle", "raised"}) =>
        /\ \A j, k \in DOMAIN rebalancing_days :
              j < k => rebalancing_days[j] < rebalancing_days[k]
        /\ Occurrences(StartDate) = 1
        /\ \A i \in DOMAIN rebalancing_days : Occurrences(rebalancing_days[i]) = 1
        /\ PreviousRbDate(StartDate) = StartDate

\* C22: for every combination _execute_option_entries enters,
\* |total cost per unit| x quantity does not exceed |options target|,
\* whether the combination is a net debit or a net credit.
C22_EntryCostWithinTarget ==
    [][(pc = "entries") =>
          \A r \in DOMAIN options_inventory' :
              r > Len(options_inventory) =>
                  Abs(options_inventory'[r].totals.cost) * options_inventory'[r].totals.qty
                        * TotalAllocation(allocation)
                      <= Abs(allocation.options * total_capital)]_vars

\* C23: in every state of a run the options inventory holds at most one
\* combination.
C23_AtMostOneCombinationHeld == Len(options_inventory) <= 1

\* A second rebalance has replaced the combination the previous one held by
\* one combination, on a date whose slice offered two candidates.
C23_Witness ==
    /\ pc = "loop"
    /\ Len(rebalances) >= 2
    /\ rebalances[Len(rebalances)].date = date
    /\ Len(rebalances[Len(rebalances) - 1].options) = 1
    /\ Len(options_inventory) = 1
    /\ Len(LegEntries(1, options_data[date])) = 2
====
